---- MODULE Spec2Model ----
(***************************************************************************)
(* Intellifiii: face embeddings bound to wallet addresses.                 *)
(*                                                                         *)
(* Embedding entries are fixed-point numbers in thousandths (the integer   *)
(* 30 stands for 0.030); all arithmetic is exact, so floating-point        *)
(* rounding of the JavaScript code is not modelled.                        *)
(***************************************************************************)
EXTENDS Integers, Sequences, FiniteSets, TLC

(***************************************************************************)
(* Bounds of the model.                                                    *)
(***************************************************************************)
\* longest prefix of chosen values of a validator input (zeros follow it)
MaxHead == 2
\* Date.now() is a clock that ticks with every upload, up to MaxTime
MaxTime == 2
\* largest integer square root searched by Sqrt
MaxNorm == 64

\* the contract's balance and the depth of nested calls are explored up to here
MaxBalance == 4

MaxDepth == 2

\* the number of spend notes created
MaxNotes == 3

(***************************************************************************)
(* Program constants.                                                      *)
(***************************************************************************)
\* `embedding.length * 0.05`, as a percentage
MIN_NONZERO_PERCENT == 5
\* `nonZeroStdDev > 0.001`, in thousandths
MIN_SPREAD_MILLI == 1
\* `Math.max(Math.abs(min), Math.abs(max)) > 0.01`, in thousandths
MIN_MAGNITUDE_MILLI == 10
\* `let min = Number.MAX_VALUE`: larger than every entry
NUMBER_MAX_VALUE == 1000000
\* `let max = Number.MIN_VALUE`: the smallest positive double, 0 in thousandths
NUMBER_MIN_VALUE == 0
\* `Math.min(100, faceEmbedding.length)`
ZERO_CHECK_WINDOW == 100
\* `zeroCount > 50`
ZERO_CHECK_LIMIT == 50
\* SIMILARITY_THRESHOLD = 0.70 of useContractInteraction.ts, in hundredths
SIMILARITY_THRESHOLD == 70
\* SIMILARITY_THRESHOLD = 0.40 of server.ts, in hundredths
SERVER_SIMILARITY_THRESHOLD == 40

(***************************************************************************)
(* Arithmetic helpers.                                                     *)
(***************************************************************************)
Abs(x) == IF x < 0 THEN -x ELSE x

Min2(x, y) == IF x < y THEN x ELSE y

Max2(x, y) == IF x > y THEN x ELSE y

RECURSIVE Gcd(_, _)
Gcd(x, y) == IF y = 0 THEN x ELSE Gcd(y, x % y)

\* Math.sqrt on the perfect squares the embeddings of the model produce
Sqrt(n) == CHOOSE r \in 0..MaxNorm : r * r = n

Zeros(n) == [i \in 1..n |-> 0]

(***************************************************************************)
(* Similarity engine: calculateCosineSimilarity.                           *)
(* A score is the exact fraction num/den in lowest terms, den > 0.         *)
(***************************************************************************)
Fraction(n, d) ==
    LET g == Gcd(Abs(n), d)
    IN  [num |-> n \div g, den |-> d \div g]

ScoreZero == [num |-> 0, den |-> 1]

ScoreOne == [num |-> 1, den |-> 1]

ScoreGT(x, y) == x.num * y.den > y.num * x.den

ScoreGE(x, y) == x.num * y.den >= y.num * x.den

\* a threshold given in hundredths, as a score
Hundredths(p) == Fraction(p, 100)

RECURSIVE dotProduct(_, _, _)
dotProduct(arr1, arr2, i) ==
    IF i > Len(arr1) THEN 0
    ELSE arr1[i] * arr2[i] + dotProduct(arr1, arr2, i + 1)

DimensionMismatch == [error |-> "Embeddings must have the same dimensions"]

\* the dot product returned without dividing by the magnitudes
calculateCosineSimilarity_Unnormalised(embedding1, embedding2) ==
    IF Len(embedding1) # Len(embedding2) THEN DimensionMismatch
    ELSE Fraction(dotProduct(embedding1, embedding2, 1), 1)

\* unequal dimensions answered with the score 0 instead of the throw
calculateCosineSimilarity_MismatchIsZero(embedding1, embedding2) ==
    IF Len(embedding1) # Len(embedding2) THEN ScoreZero
    ELSE LET dot  == dotProduct(embedding1, embedding2, 1)
             mag1 == Sqrt(dotProduct(embedding1, embedding1, 1))
             mag2 == Sqrt(dotProduct(embedding2, embedding2, 1))
         IN  IF mag1 = 0 \/ mag2 = 0 THEN ScoreZero
             ELSE Fraction(dot, mag1 * mag2)

\* a zero magnitude answered with a full match
calculateCosineSimilarity_ZeroMatches(embedding1, embedding2) ==
    IF Len(embedding1) # Len(embedding2) THEN DimensionMismatch
    ELSE LET dot  == dotProduct(embedding1, embedding2, 1)
             mag1 == Sqrt(dotProduct(embedding1, embedding1, 1))
             mag2 == Sqrt(dotProduct(embedding2, embedding2, 1))
         IN  IF mag1 = 0 \/ mag2 = 0 THEN ScoreOne
             ELSE Fraction(dot, mag1 * mag2)

calculateCosineSimilarity(embedding1, embedding2) ==
    IF Len(embedding1) # Len(embedding2) THEN DimensionMismatch
    ELSE LET dot  == dotProduct(embedding1, embedding2, 1)
             mag1 == Sqrt(dotProduct(embedding1, embedding1, 1))
             mag2 == Sqrt(dotProduct(embedding2, embedding2, 1))
         IN  IF mag1 = 0 \/ mag2 = 0 THEN ScoreZero
             ELSE Fraction(dot, mag1 * mag2)

(***************************************************************************)
(* Embedding validator: validateEmbedding (server) and isValidEmbedding    *)
(* (useFaceProcessing hook).                                               *)
(***************************************************************************)
MsgTooManyZeros == "Face embedding has too many zero values"

MsgNotDistributed == "Face embedding values are not well distributed"

\* the statistics loop: one pass over the entries, from index i
RECURSIVE embeddingStats(_, _, _)
embeddingStats(embedding, i, acc) ==
    IF i > Len(embedding) THEN acc
    ELSE IF embedding[i] = 0
         THEN embeddingStats(embedding, i + 1,
                             [acc EXCEPT !.zeroCount = @ + 1])
         ELSE embeddingStats(embedding, i + 1,
                             [acc EXCEPT !.nonZeroValues = Append(@, embedding[i]),
                                         !.min = Min2(@, embedding[i]),
                                         !.max = Max2(@, embedding[i])])

initialStats ==
    [zeroCount |-> 0, nonZeroValues |-> <<>>,
     min |-> NUMBER_MAX_VALUE, max |-> NUMBER_MIN_VALUE]

RECURSIVE reduceSum(_, _)
reduceSum(values, i) ==
    IF i > Len(values) THEN 0 ELSE values[i] + reduceSum(values, i + 1)

\* sum of (n * (val - mean))^2 = sum of (n * val - sum)^2, n = number of values
RECURSIVE reduceSquaredDeviation(_, _, _)
reduceSquaredDeviation(values, total, i) ==
    IF i > Len(values) THEN 0
    ELSE (Len(values) * values[i] - total) * (Len(values) * values[i] - total)
         + reduceSquaredDeviation(values, total, i + 1)

\* nonZeroCount >= embedding.length * 0.05
hasMinimumNonZeroValues(embedding, zeroCount) ==
    100 * (Len(embedding) - zeroCount) >= MIN_NONZERO_PERCENT * Len(embedding)

\* the spread limit taken inclusively: `nonZeroStdDev >= 0.001`
hasReasonableNonZeroSpread_Inclusive(nonZeroValues) ==
    LET n == Len(nonZeroValues)
    IN  /\ n > 0
        /\ reduceSquaredDeviation(nonZeroValues, reduceSum(nonZeroValues, 1), 1)
             >= MIN_SPREAD_MILLI * MIN_SPREAD_MILLI * n * n * n

\* nonZeroStdDev > 0.001, where nonZeroStdDev is 0 without non-zero values:
\* sqrt(sum (val - mean)^2 / n) > s  <=>  sum (n*val - sum)^2 > s^2 * n^3
hasReasonableNonZeroSpread(nonZeroValues) ==
    LET n == Len(nonZeroValues)
    IN  /\ n > 0
        /\ reduceSquaredDeviation(nonZeroValues, reduceSum(nonZeroValues, 1), 1)
             > MIN_SPREAD_MILLI * MIN_SPREAD_MILLI * n * n * n

\* Math.max(Math.abs(min), Math.abs(max)) > 0.01
hasReasonableMagnitude(min, max) ==
    Max2(Abs(min), Abs(max)) > MIN_MAGNITUDE_MILLI

validateEmbedding(embedding) ==
    LET st == embeddingStats(embedding, 1, initialStats)
    IN  IF ~hasMinimumNonZeroValues(embedding, st.zeroCount)
        THEN [isValid |-> FALSE, message |-> MsgTooManyZeros]
        ELSE IF \/ ~hasReasonableNonZeroSpread(st.nonZeroValues)
                \/ ~hasReasonableMagnitude(st.min, st.max)
             THEN [isValid |-> FALSE, message |-> MsgNotDistributed]
             ELSE [isValid |-> TRUE, message |-> ""]

isValidEmbedding(embedding) ==
    LET st == embeddingStats(embedding, 1, initialStats)
    IN  /\ hasMinimumNonZeroValues(embedding, st.zeroCount)
        /\ hasReasonableNonZeroSpread(st.nonZeroValues)
        /\ hasReasonableMagnitude(st.min, st.max)

\* the check at the head of checkFaceUniqueness: zeros among the first 100
RECURSIVE countLeadingZeros(_, _, _)
countLeadingZeros(embedding, i, limit) ==
    IF i > limit THEN 0
    ELSE (IF embedding[i] = 0 THEN 1 ELSE 0)
         + countLeadingZeros(embedding, i + 1, limit)

tooManyZeros(embedding) ==
    countLeadingZeros(embedding, 1, Min2(ZERO_CHECK_WINDOW, Len(embedding)))
        > ZERO_CHECK_LIMIT


(***************************************************************************)
(* State.                                                                  *)
(***************************************************************************)
VARIABLES
    \* validator runs: the embedding handed in and what each validator said
    vInput, vResult, vAccepted,
    \* FaceRegistration contract storage, and the outcome of the last call
    registrations, registrants, receipt,
    \* server.ts handleFaceVerification: position, embeddingData, registeredFaces,
    \* index of the next face, bestMatch, the similarities computed, the response
    sPc, sEmbedding, sFaces, sNext, sBestMatch, sCompared, sResponse,
    \* getRegisteredFaces: the count it read (-1 before) and the index whose
    \* read threw (0 when none did)
    sTotal, sFailedAt,
    \* the browser client of each wallet: FaceProcessor state (fp), Home state
    \* (home), useContractInteraction state (hook), and the registration attempt
    \* in flight with its arguments and locals (run)
    fp, home, hook, run,
    \* Date.now() at the last upload
    now,
    \* a call of calculateCosineSimilarity: its arguments and what came back
    simA, simB, simResult,
    \* a fetch from IPFS: the gateways that answer (gUp), the function called
    \* (fFn), its argument (fHash), the gateways contacted so far (fTried) and
    \* what came back (fResult)
    gUp, fFn, fHash, fTried, fResult,
    \* the ether of FaceRegistar.sol: paymentSent, address(this).balance, and
    \* what each account has received from the contract
    paymentSent, balance, received,
    \* one answer of the comparison API (oResult) and what the loop body of the
    \* oracle path and of the local path make of it (oOutcome)
    oResult, oOutcome,
    \* the spend notes of the FaceRegistration contract that has them: its
    \* storage, its balance, and how often the funds of a note were sent out
    \* and a nullifier was accepted
    spendNotes, spentNullifiers, spendNoteHashes, noteBalance, notePaid, nullifierUsed

valVars == <<vInput, vResult, vAccepted>>

contractVars == <<registrations, registrants, receipt>>

serverVars ==
    <<sPc, sEmbedding, sFaces, sNext, sBestMatch, sCompared, sResponse, sTotal, sFailedAt>>

clientVars == <<fp, home, hook, run, now>>

simVars == <<simA, simB, simResult>>

fetchVars == <<gUp, fFn, fHash, fTried, fResult>>

ledgerVars == <<paymentSent, balance, received>>

oracleVars == <<oResult, oOutcome>>

noteVars ==
    <<spendNotes, spentNullifiers, spendNoteHashes, noteBalance, notePaid, nullifierUsed>>

\* what is observed on its own: the calls of the ipfsUtils functions, the
\* ether held by the contract, the answers of the comparison API and the
\* spend notes
utilVars == <<simVars, fetchVars, ledgerVars, oracleVars, noteVars>>

vars == <<valVars, contractVars, serverVars, clientVars, utilVars>>

\* what the steps of one component leave alone
exceptVal == <<contractVars, serverVars, clientVars, utilVars>>

exceptContract == <<valVars, serverVars, clientVars, utilVars>>

exceptServer == <<valVars, contractVars, clientVars, utilVars>>

exceptUtil == <<valVars, contractVars, serverVars, clientVars>>

NotRun == [isValid |-> FALSE, message |-> "not run"]

ValInit ==
    /\ vInput = <<>>
    /\ vResult = NotRun
    /\ vAccepted = "not run"

(***************************************************************************)
(* The validators applied to bounded inputs.                               *)
(***************************************************************************)
\* entries in thousandths: around the 0.01 magnitude and 0.001 spread limits
ValidatorValues == {-12, 0, 5, 8, 10, 11, 13, 30}

\* zeros appended to the prefix: dimensions around the 5% non-zero limit
ZeroPads == {0, 18, 38, 58}

ValidatorInputs ==
    { head \o Zeros(z) :
        head \in UNION { [1..n -> ValidatorValues] : n \in 0..MaxHead },
        z \in ZeroPads }

\* the extractor hands an embedding to the validators
ReceiveEmbedding ==
    /\ vInput = <<>>
    /\ vResult = NotRun
    /\ vAccepted = "not run"
    /\ \E e \in ValidatorInputs \ {<<>>} : vInput' = e
    /\ UNCHANGED <<vResult, vAccepted, exceptVal>>

\* server.ts: validateEmbedding(embeddingData)
RunValidateEmbedding ==
    /\ vInput # <<>>
    /\ vResult = NotRun
    /\ vResult' = validateEmbedding(vInput)
    /\ UNCHANGED <<vInput, vAccepted, exceptVal>>

\* useFaceProcessing: isValidEmbedding(embedding)
RunIsValidEmbedding ==
    /\ vInput # <<>>
    /\ vAccepted = "not run"
    /\ vAccepted' = IF isValidEmbedding(vInput) THEN "valid" ELSE "invalid"
    /\ UNCHANGED <<vInput, vResult, exceptVal>>

(***************************************************************************)
(* FaceRegistration contract (FaceRegistar.sol).                           *)
(***************************************************************************)
ZeroAddress == "0x0"

Wallets == {"w1", "w2"}

\* every account that can send a transaction
Callers == Wallets \cup {"w3"}

\* an IPFS hash string: '' is EmptyHash; prefix is a leading 'ipfs://'
EmptyHash == [prefix |-> FALSE, embedding |-> <<>>, timestamp |-> 0]

\* the zero value of struct Registration
EmptyRegistration ==
    [wallet |-> ZeroAddress, publicKey |-> "", faceHash |-> <<>>,
     ipfsHash |-> EmptyHash, timestamp |-> 0]

NoReceipt == [fn |-> "", sender |-> ZeroAddress, status |-> ""]

ContractInit ==
    /\ registrations = [a \in Callers |-> EmptyRegistration]
    /\ registrants = <<>>
    /\ receipt = NoReceipt
    /\ paymentSent = [a \in Callers |-> FALSE]
    /\ balance = 0
    /\ received = [a \in Callers |-> 0]

\* block.timestamp: the chain's time advances with every registration
blockTimestamp == Len(registrants) + 1

\* register without its require: a second call overwrites and appends again
register_Unguarded(sender, faceHash, publicKey, ipfsHash) ==
    /\ registrations' = [registrations EXCEPT ![sender] =
           [wallet |-> sender, publicKey |-> publicKey, faceHash |-> faceHash,
            ipfsHash |-> ipfsHash, timestamp |-> blockTimestamp]]
    /\ registrants' = Append(registrants, sender)
    /\ receipt' = [fn |-> "register", sender |-> sender, status |-> "confirmed"]

\* a registry that also rejects a face hash it already stores
register_UniqueFace(sender, faceHash, publicKey, ipfsHash) ==
    IF \/ registrations[sender].wallet # ZeroAddress
       \/ \E a \in Callers : /\ registrations[a].wallet # ZeroAddress
                             /\ registrations[a].faceHash = faceHash
    THEN /\ receipt' = [fn |-> "register", sender |-> sender,
                        status |-> "Already registered"]
         /\ UNCHANGED <<registrations, registrants>>
    ELSE /\ registrations' = [registrations EXCEPT ![sender] =
                [wallet |-> sender, publicKey |-> publicKey, faceHash |-> faceHash,
                 ipfsHash |-> ipfsHash, timestamp |-> blockTimestamp]]
         /\ registrants' = Append(registrants, sender)
         /\ receipt' = [fn |-> "register", sender |-> sender, status |-> "confirmed"]

\* function register(bytes32 _faceHash, bytes _publicKey, string _ipfsHash)
register(sender, faceHash, publicKey, ipfsHash) ==
    IF registrations[sender].wallet # ZeroAddress
    THEN /\ receipt' = [fn |-> "register", sender |-> sender,
                        status |-> "Already registered"]
         /\ UNCHANGED <<registrations, registrants>>
    ELSE /\ registrations' = [registrations EXCEPT ![sender] =
                [wallet |-> sender, publicKey |-> publicKey, faceHash |-> faceHash,
                 ipfsHash |-> ipfsHash, timestamp |-> blockTimestamp]]
         /\ registrants' = Append(registrants, sender)
         /\ receipt' = [fn |-> "register", sender |-> sender, status |-> "confirmed"]

\* function getRegistration(address _wallet)
getRegistration(wallet) == registrations[wallet]

\* function totalRegistrants()
totalRegistrants == Len(registrants)

\* arguments a direct caller may pass
CallFaceHashes == {<<1>>, <<2>>}

CallIpfsHashes ==
    {EmptyHash,
     [prefix |-> FALSE, embedding |-> <<30, 40, 0, 0>>, timestamp |-> 1],
     [prefix |-> FALSE, embedding |-> <<20, 10, 40, 20>>, timestamp |-> 1]}

\* any account calls register with any arguments
CallRegister ==
    /\ \E sender \in Callers, faceHash \in CallFaceHashes, ipfsHash \in CallIpfsHashes :
           register(sender, faceHash, "pk", ipfsHash)
    /\ UNCHANGED exceptContract

\* `owner = msg.sender` of the constructor: the account that deployed
owner == "w3"

\* `uint256 payment = 0.01 ether`, counted in units of 0.005 ether
PAYMENT == 2

\* msg.value of a deposit, in the same unit
Deposits == {1, 2}

\* the ether state a call starts from
Ledger == [paymentSent |-> paymentSent, balance |-> balance, received |-> received]

\* a call that reverted leaves the state it started from
Reverted(L, reason) == [status |-> reason, ledger |-> L, nested |-> 0]

\* releasePayment with `require(!paymentSent[_wallet])` left out
releasePayment_PaidAgain(L, sender, wallet, depth) ==
    IF sender # owner THEN {Reverted(L, "Not authorized")}
    ELSE IF registrations[wallet].wallet = ZeroAddress
    THEN {Reverted(L, "Not registered")}
    ELSE IF L.balance < PAYMENT
    THEN {Reverted(L, "Insufficient contract balance")}
    ELSE {[status |-> "confirmed", nested |-> 0,
           ledger |-> [L EXCEPT !.paymentSent[wallet] = TRUE,
                                !.balance = @ - PAYMENT,
                                !.received[wallet] = @ + PAYMENT]],
          Reverted(L, "transfer failed")}

\* function releasePayment(address _wallet) external onlyOwner: the outcomes
\* of one call. `payable(_wallet).transfer(payment)` runs the recipient's code
\* after paymentSent is set: the recipient accepts, reverts, or calls
\* releasePayment itself before it accepts; nested counts these inner calls
RECURSIVE releasePayment(_, _, _, _)
releasePayment(L, sender, wallet, depth) ==
    IF sender # owner THEN {Reverted(L, "Not authorized")}
    ELSE IF registrations[wallet].wallet = ZeroAddress
    THEN {Reverted(L, "Not registered")}
    ELSE IF L.paymentSent[wallet]
    THEN {Reverted(L, "Payment already sent")}
    ELSE IF L.balance < PAYMENT
    THEN {Reverted(L, "Insufficient contract balance")}
    ELSE LET transferred == [L EXCEPT !.paymentSent[wallet] = TRUE,
                                      !.balance = @ - PAYMENT,
                                      !.received[wallet] = @ + PAYMENT]
             accepted == [status |-> "confirmed", ledger |-> transferred, nested |-> 0]
             reentered ==
                 IF depth >= MaxDepth THEN {}
                 ELSE {[status |-> "confirmed", ledger |-> inner.ledger,
                        nested |-> inner.nested + 1] :
                          inner \in UNION {releasePayment(transferred, wallet, to, depth + 1) :
                                              to \in Callers}}
         IN  {accepted, Reverted(L, "transfer failed")} \cup reentered

\* any account calls releasePayment for any account
CallReleasePayment ==
    /\ \E sender \in Callers, wallet \in Callers :
          \E outcome \in releasePayment(Ledger, sender, wallet, 0) :
             /\ paymentSent' = outcome.ledger.paymentSent
             /\ balance' = outcome.ledger.balance
             /\ received' = outcome.ledger.received
             /\ receipt' = [fn |-> "releasePayment", sender |-> sender,
                            status |-> outcome.status, nested |-> outcome.nested]
    /\ UNCHANGED <<registrations, registrants>>
    /\ UNCHANGED <<valVars, serverVars, clientVars, simVars, fetchVars, oracleVars, noteVars>>

\* function deposit() external payable, and receive()
CallDeposit ==
    /\ \E sender \in Callers, value \in Deposits :
          /\ balance + value <= MaxBalance
          /\ balance' = balance + value
          /\ receipt' = [fn |-> "deposit", sender |-> sender, status |-> "confirmed"]
    /\ UNCHANGED <<registrations, registrants, paymentSent, received>>
    /\ UNCHANGED <<valVars, serverVars, clientVars, simVars, fetchVars, oracleVars, noteVars>>

(***************************************************************************)
(* Spend notes: the FaceRegistration contract with createSpendNote and     *)
(* spendNote. register, registrations and registrants are as above.        *)
(***************************************************************************)
\* bytes32(0)
ZeroHash == 0

\* note hashes and nullifiers a caller may pass
NoteHashes == {ZeroHash, 1, 2}

Nullifiers == {1, 2}

\* 0.1 ether, counted in units of 0.05 ether
NOTE_AMOUNT == 2

\* msg.value of a createSpendNote call, in the same unit
NoteValues == {1, 2, 3}

\* the zero value of struct SpendNote
EmptyNote == [noteHash |-> ZeroHash, amount |-> 0, spent |-> FALSE, timestamp |-> 0]

NotesInit ==
    /\ spendNotes = [h \in NoteHashes |-> EmptyNote]
    /\ spentNullifiers = [n \in Nullifiers |-> FALSE]
    /\ spendNoteHashes = <<>>
    /\ noteBalance = 0
    /\ notePaid = [h \in NoteHashes |-> 0]
    /\ nullifierUsed = [n \in Nullifiers |-> 0]

\* function createSpendNote(bytes32 _noteHash) external payable
createSpendNote(sender, noteHash, value) ==
    IF registrations[sender].wallet = ZeroAddress
    THEN /\ receipt' = [fn |-> "createSpendNote", sender |-> sender,
                        status |-> "Not registered"]
         /\ UNCHANGED <<spendNotes, spendNoteHashes, noteBalance>>
    ELSE IF value # NOTE_AMOUNT
    THEN /\ receipt' = [fn |-> "createSpendNote", sender |-> sender,
                        status |-> "Must send exactly 0.1 ETH"]
         /\ UNCHANGED <<spendNotes, spendNoteHashes, noteBalance>>
    ELSE IF spendNotes[noteHash].noteHash # ZeroHash
    THEN /\ receipt' = [fn |-> "createSpendNote", sender |-> sender,
                        status |-> "Note already exists"]
         /\ UNCHANGED <<spendNotes, spendNoteHashes, noteBalance>>
    ELSE /\ spendNotes' = [spendNotes EXCEPT ![noteHash] =
                [noteHash |-> noteHash, amount |-> value, spent |-> FALSE,
                 timestamp |-> blockTimestamp]]
         /\ spendNoteHashes' = Append(spendNoteHashes, noteHash)
         /\ noteBalance' = noteBalance + value
         /\ receipt' = [fn |-> "createSpendNote", sender |-> sender,
                        status |-> "confirmed"]

\* any account calls createSpendNote with any hash and value
CallCreateSpendNote ==
    /\ Len(spendNoteHashes) < MaxNotes
    /\ \E sender \in Callers, noteHash \in NoteHashes, value \in NoteValues :
          createSpendNote(sender, noteHash, value)
    /\ UNCHANGED <<registrations, registrants, spentNullifiers, notePaid, nullifierUsed>>
    /\ UNCHANGED <<valVars, serverVars, clientVars, simVars, fetchVars, ledgerVars,
                   oracleVars>>

\* the note state a call starts from
Notes ==
    [spendNotes |-> spendNotes, spentNullifiers |-> spentNullifiers,
     balance |-> noteBalance, paid |-> notePaid, used |-> nullifierUsed]

\* function spendNote(_noteHash, _nullifier, _recipient, _merkleProof): the
\* outcomes of one call. `_recipient.call{value: amount}("")` runs the
\* recipient's code with all gas after both marks are set: the recipient
\* accepts, fails, or calls spendNote itself before it accepts
RECURSIVE spendNote(_, _, _, _)
spendNote(N, noteHash, nullifier, depth) ==
    IF N.spendNotes[noteHash].noteHash = ZeroHash
    THEN {Reverted(N, "Note does not exist")}
    ELSE IF N.spendNotes[noteHash].spent
    THEN {Reverted(N, "Note already spent")}
    ELSE IF N.spentNullifiers[nullifier]
    THEN {Reverted(N, "Nullifier already used")}
    ELSE LET amount == N.spendNotes[noteHash].amount
             sent == [N EXCEPT !.spendNotes[noteHash].spent = TRUE,
                               !.spentNullifiers[nullifier] = TRUE,
                               !.balance = @ - amount,
                               !.paid[noteHash] = @ + 1,
                               !.used[nullifier] = @ + 1]
             reentered ==
                 IF depth >= MaxDepth THEN {}
                 ELSE {[status |-> "confirmed", ledger |-> inner.ledger,
                        nested |-> inner.nested + 1] :
                          inner \in UNION {spendNote(sent, h, n, depth + 1) :
                                              h \in NoteHashes, n \in Nullifiers}}
         IN  IF N.balance < amount
             THEN {Reverted(N, "Transfer failed")}
             ELSE {[status |-> "confirmed", ledger |-> sent, nested |-> 0],
                   Reverted(N, "Transfer failed")} \cup reentered

\* any account calls spendNote for any note and nullifier; the recipient may
\* be any account or contract
CallSpendNote ==
    /\ \E sender \in Callers, noteHash \in NoteHashes, nullifier \in Nullifiers :
          \E outcome \in spendNote(Notes, noteHash, nullifier, 0) :
             /\ spendNotes' = outcome.ledger.spendNotes
             /\ spentNullifiers' = outcome.ledger.spentNullifiers
             /\ noteBalance' = outcome.ledger.balance
             /\ notePaid' = outcome.ledger.paid
             /\ nullifierUsed' = outcome.ledger.used
             /\ receipt' = [fn |-> "spendNote", sender |-> sender,
                            status |-> outcome.status, nested |-> outcome.nested]
    /\ UNCHANGED <<registrations, registrants, spendNoteHashes>>
    /\ UNCHANGED <<valVars, serverVars, clientVars, simVars, fetchVars, ledgerVars,
                   oracleVars>>

(***************************************************************************)
(* Browser client: FaceProcessor.tsx, Home.tsx, useContractInteraction.ts. *)
(***************************************************************************)
NoEmbedding == <<>>

\* the CID Pinata returns for the payload {embedding, timestamp, version}
Cid(embedding, timestamp) ==
    [prefix |-> FALSE, embedding |-> embedding, timestamp |-> timestamp]

\* `ipfs://${ipfsHash}`
formattedIpfsHash(ipfsHash) == [ipfsHash EXCEPT !.prefix = TRUE]

\* SHA-256 of the embedding's bytes, represented by its collision-free preimage
generateHash(embedding) == embedding

\* embeddings the extractor may return for a captured image
Extracted ==
    {<<30, 40, 0, 0>>, <<20, 20, 20, 20>>, Zeros(4), <<30, 40>> \o Zeros(58)}

MsgInvalidEmbedding ==
    "Invalid face embedding. Please capture a new image with better lighting."
MsgAlreadyRegistered == "This wallet address is already registered"
MsgNoPublicKey == "Cannot register without a public key."
MsgRegisterFailed == "Failed to register on blockchain. Please try again later."

MsgUploaded == "Face embedding uploaded to IPFS"
MsgUploadFailed == "Failed to upload to IPFS"

\* toast is the title of the last toast registerOnline has shown
NoCapture ==
    [faceEmbedding |-> NoEmbedding, hash |-> NoEmbedding, ipfsHash |-> EmptyHash,
     toast |-> "null"]

NoHomeData ==
    [faceEmbedding |-> NoEmbedding, faceHash |-> NoEmbedding, ipfsHash |-> EmptyHash,
     isRegistered |-> FALSE, uniquenessResult |-> "null"]

NoHookState ==
    [uniquenessStatus |-> "null", registrationStatus |-> "none", error |-> "null",
     isRegistering |-> FALSE]

\* no attempt made: count is undefined (-1) until totalRegistrants() returns;
\* scored are the indices a similarity was computed for, mismatched those of
\* the 'Embedding length mismatch' warning; attempt is the register attempt
\* registerFaceHash is at (0 outside)
NoRun ==
    [pc |-> "idle", faceEmbedding |-> NoEmbedding, currentIpfsHash |-> EmptyHash,
     count |-> -1, i |-> 0, similarity |-> ScoreZero, scored |-> {},
     mismatched |-> {}, attempt |-> 0]

ClientInit ==
    /\ fp = [w \in Wallets |-> NoCapture]
    /\ home = [w \in Wallets |-> NoHomeData]
    /\ hook = [w \in Wallets |-> NoHookState]
    /\ run = [w \in Wallets |-> NoRun]
    /\ now = 0

\* the page is (re)loaded: React state is lost, and checkWalletRegistration
\* reads the wallet's registration, unless the read throws
NewSession(w) ==
    /\ run[w].pc = "idle"
    /\ fp' = [fp EXCEPT ![w] = NoCapture]
    /\ hook' = [hook EXCEPT ![w] = NoHookState]
    /\ run' = [run EXCEPT ![w] = NoRun]
    /\ \/ home' = [home EXCEPT ![w] =
              [NoHomeData EXCEPT !.isRegistered = getRegistration(w).wallet # ZeroAddress]]
       \/ home' = [home EXCEPT ![w] = NoHomeData]
    /\ UNCHANGED <<now, valVars, contractVars, serverVars, utilVars>>

\* captureImage and processImage: the extractor's embedding and its hash
Capture(w) ==
    /\ run[w].pc = "idle"
    /\ fp[w].faceEmbedding = NoEmbedding
    /\ \E embedding \in Extracted :
          fp' = [fp EXCEPT ![w].faceEmbedding = embedding,
                           ![w].hash = generateHash(embedding)]
    /\ UNCHANGED <<home, hook, run, now, valVars, contractVars, serverVars, utilVars>>

\* resetCapture (Retake): the capture is dropped; Home keeps what it was handed
ResetCapture(w) ==
    /\ run[w].pc = "idle"
    /\ fp[w].faceEmbedding # NoEmbedding
    /\ fp' = [fp EXCEPT ![w] = [NoCapture EXCEPT !.toast = fp[w].toast]]
    /\ UNCHANGED <<home, hook, run, now, valVars, contractVars, serverVars, utilVars>>

\* a failed upload answered with a locally made content address
UploadFailed_LocalAddress(w) ==
    LET localHash == Cid(fp[w].faceEmbedding, 0)
    IN  /\ fp' = [fp EXCEPT ![w].ipfsHash = localHash]
        /\ home' = [home EXCEPT ![w].ipfsHash = localHash,
                               ![w].faceHash = fp[w].hash,
                               ![w].faceEmbedding = fp[w].faceEmbedding,
                               ![w].uniquenessResult = "null"]

\* `catch (err)` of registerOnline: uploadToIPFS has thrown
UploadFailed(w) ==
    /\ fp' = [fp EXCEPT ![w].toast = MsgUploadFailed]
    /\ UNCHANGED home

\* registerOnline: upload the captured embedding with one POST to Pinata, then
\* hand hash, embedding and IPFS hash to Home; when uploadToIPFS throws, only
\* the toast 'Failed to upload to IPFS' is shown
RegisterOnline(w) ==
    /\ run[w].pc = "idle"
    /\ fp[w].faceEmbedding # NoEmbedding
    /\ fp[w].ipfsHash = EmptyHash
    /\ now < MaxTime
    /\ now' = now + 1
    /\ \/ LET newIpfsHash == Cid(fp[w].faceEmbedding, now')
          IN  /\ fp' = [fp EXCEPT ![w].ipfsHash = newIpfsHash,
                                   ![w].toast = MsgUploaded]
              /\ home' = [home EXCEPT ![w].ipfsHash = newIpfsHash,
                                     ![w].faceHash = fp[w].hash,
                                     ![w].faceEmbedding = fp[w].faceEmbedding,
                                     ![w].uniquenessResult = "null"]
       \/ UploadFailed(w)
    /\ UNCHANGED <<hook, run, valVars, contractVars, serverVars, utilVars>>

\* a comparison that never reports a match
aboveThreshold_Never(similarity) == FALSE

\* `similarity > SIMILARITY_THRESHOLD`
aboveThreshold(similarity) ==
    ScoreGT(similarity, Hundredths(SIMILARITY_THRESHOLD))

\* the re-check of registerFaceHash left out
isRegistered_Never(registration) == FALSE

\* `registration.wallet !== ethers.ZeroAddress`
isRegistered(registration) == registration.wallet # ZeroAddress

\* the useEffect of Home on uniquenessStatus
uniquenessResultOf(uniquenessStatus) ==
    IF uniquenessStatus = "unique" THEN "unique" ELSE "notUnique"

\* checkFaceUniqueness has returned `verdict`: Home registers when it is unique
CheckReturns(w, verdict, locals) ==
    /\ hook' = [hook EXCEPT ![w].uniquenessStatus = verdict]
    /\ home' = [home EXCEPT ![w].uniquenessResult = uniquenessResultOf(verdict)]
    /\ run' = [run EXCEPT ![w] =
           [locals EXCEPT !.pc = IF verdict = "unique" THEN "register" ELSE "idle"]]

\* an empty registry taken for a populated one
noRegistrations_Never(count) == FALSE

\* `if (count === 0)`: no registrations yet, so the face is unique
noRegistrations(count) == count = 0

\* handleRegisterOnChain up to the first registry read of checkFaceUniqueness:
\* the zero count of the candidate, then totalRegistrants()
HandleRegisterOnChain(w) ==
    /\ run[w].pc = "idle"
    /\ home[w].faceEmbedding # NoEmbedding
    /\ home[w].faceHash # NoEmbedding
    /\ home[w].ipfsHash # EmptyHash
    /\ ~home[w].isRegistered
    /\ home[w].uniquenessResult \in {"null", "unique"}
    /\ LET call == [NoRun EXCEPT !.faceEmbedding = home[w].faceEmbedding,
                                 !.currentIpfsHash = home[w].ipfsHash]
       IN  IF tooManyZeros(call.faceEmbedding)
           THEN /\ hook' = [hook EXCEPT ![w].uniquenessStatus = "error",
                                        ![w].error = MsgInvalidEmbedding]
                /\ home' = [home EXCEPT ![w].uniquenessResult = "notUnique"]
                /\ run' = [run EXCEPT ![w] = call]
           ELSE \/ \* the read throws: 'Assuming face is unique due to contract error'
                   CheckReturns(w, "unique", call)
                \/ IF noRegistrations(totalRegistrants)
                   THEN CheckReturns(w, "unique", [call EXCEPT !.count = 0])
                   ELSE /\ run' = [run EXCEPT ![w] =
                               [call EXCEPT !.pc = "loop", !.count = totalRegistrants,
                                            !.i = 1]]
                        /\ hook' = [hook EXCEPT ![w].uniquenessStatus = "checking"]
                        /\ UNCHANGED home
    /\ UNCHANGED <<fp, now, valVars, contractVars, serverVars, utilVars>>

\* the loop condition evaluated against the registry's length of the moment
ContinueCheck_RereadCount(w, locals) ==
    IF locals.i >= totalRegistrants
    THEN CheckReturns(w, "unique", [locals EXCEPT !.count = totalRegistrants])
    ELSE /\ run' = [run EXCEPT ![w] =
                [locals EXCEPT !.i = @ + 1, !.count = totalRegistrants]]
         /\ UNCHANGED <<hook, home>>

\* the end of one loop iteration without a match: `i < count` with the count
\* read before the loop
ContinueCheck(w, locals) ==
    IF locals.i = locals.count
    THEN CheckReturns(w, "unique", locals)
    ELSE /\ run' = [run EXCEPT ![w] = [locals EXCEPT !.i = @ + 1]]
         /\ UNCHANGED <<hook, home>>

\* the first entry that cannot be processed ends the check as unique
EntryFailed_Abort(w) == CheckReturns(w, "unique", run[w])

\* `catch (err)` of the loop body: log, and continue with the other registrations
EntryFailed(w) == ContinueCheck(w, run[w])

\* only the entries without an IPFS hash are skipped
skipRegistration_EmptyOnly(wallet, registrantAddress, ipfsHash, currentIpfsHash) ==
    ipfsHash = EmptyHash

\* 'Skipping: empty IPFS hash, own wallet, or same IPFS hash'
skipRegistration(wallet, registrantAddress, ipfsHash, currentIpfsHash) ==
    \/ ipfsHash = EmptyHash
    \/ registrantAddress = wallet
    \/ ipfsHash = currentIpfsHash

\* one iteration of the loop of checkFaceUniqueness over the registrants
CheckRegistration(w) ==
    /\ run[w].pc = "loop"
    /\ LET registrantAddress == registrants[run[w].i]
           registration == getRegistration(registrantAddress)
           storedEmbedding == registration.ipfsHash.embedding
           similarity == calculateCosineSimilarity(run[w].faceEmbedding, storedEmbedding)
           scored == [run[w] EXCEPT !.similarity = similarity,
                                    !.scored = @ \cup {run[w].i}]
       IN  \/ \* registrants(i), getRegistration or retrieveFromIPFS throws
              EntryFailed(w)
           \/ /\ skipRegistration(w, registrantAddress, registration.ipfsHash,
                                  run[w].currentIpfsHash)
              /\ ContinueCheck(w, run[w])
           \/ /\ ~skipRegistration(w, registrantAddress, registration.ipfsHash,
                                   run[w].currentIpfsHash)
              /\ ~registration.ipfsHash.prefix
              /\ IF tooManyZeros(storedEmbedding)
                 THEN ContinueCheck(w, run[w])
                 ELSE IF Len(run[w].faceEmbedding) # Len(storedEmbedding)
                      THEN ContinueCheck(w, [run[w] EXCEPT !.mismatched = @ \cup {run[w].i}])
                      ELSE IF aboveThreshold(similarity)
                           THEN CheckReturns(w, "duplicate", scored)
                           ELSE ContinueCheck(w, scored)
    /\ UNCHANGED <<fp, now, valVars, contractVars, serverVars, utilVars>>

\* registerFaceHash up to the first register transaction; `finally` clears
\* isRegistering on every way out
RegisterFaceHash(w) ==
    /\ run[w].pc = "register"
    /\ \/ \* getContract or getRegistration throws
          /\ hook' = [hook EXCEPT ![w].registrationStatus = "error",
                                  ![w].error = MsgRegisterFailed,
                                  ![w].isRegistering = FALSE]
          /\ run' = [run EXCEPT ![w].pc = "idle"]
       \/ IF isRegistered(getRegistration(w))
          THEN /\ hook' = [hook EXCEPT ![w].registrationStatus = "error",
                                       ![w].error = MsgAlreadyRegistered,
                                       ![w].isRegistering = FALSE]
               /\ run' = [run EXCEPT ![w].pc = "idle"]
          ELSE \/ \* the wallet exposes no public key
                  /\ hook' = [hook EXCEPT ![w].registrationStatus = "error",
                                          ![w].error = MsgNoPublicKey,
                                          ![w].isRegistering = FALSE]
                  /\ run' = [run EXCEPT ![w].pc = "idle"]
               \/ /\ hook' = [hook EXCEPT ![w].registrationStatus = "checking",
                                          ![w].error = "null",
                                          ![w].isRegistering = TRUE]
                  /\ run' = [run EXCEPT ![w].pc = "tx", ![w].attempt = 1]
    /\ UNCHANGED <<fp, home, now, valVars, contractVars, serverVars, utilVars>>

\* the IPFS hash passed by the n-th register attempt: the third passes
\* formattedIpfsHash, the others ipfsHash
attemptIpfsHash(ipfsHash, attempt) ==
    IF attempt = 3 THEN formattedIpfsHash(ipfsHash) ELSE ipfsHash

\* the number of formats registerFaceHash tries
REGISTER_ATTEMPTS == 4

\* `catch` of an attempt: the next format is tried; the last one rethrows, and
\* the outer catch sets the error
AttemptFailed(w) ==
    IF run[w].attempt < REGISTER_ATTEMPTS
    THEN /\ run' = [run EXCEPT ![w].attempt = @ + 1]
         /\ UNCHANGED hook
    ELSE /\ run' = [run EXCEPT ![w].pc = "idle", ![w].attempt = 0]
         /\ hook' = [hook EXCEPT ![w].registrationStatus = "error",
                                 ![w].error = MsgRegisterFailed,
                                 ![w].isRegistering = FALSE]

\* a confirmed attempt followed by the next format all the same
AttemptConfirmed_Retry(w) ==
    /\ AttemptFailed(w)
    /\ home' = [home EXCEPT ![w].isRegistered = TRUE]

\* `await tx.wait()` has returned: no catch block runs, so no other format is
\* sent, and setRegistrationStatus('success')
AttemptConfirmed(w) ==
    /\ run' = [run EXCEPT ![w].pc = "idle", ![w].attempt = 0]
    /\ hook' = [hook EXCEPT ![w].registrationStatus = "success",
                            ![w].isRegistering = FALSE]
    /\ home' = [home EXCEPT ![w].isRegistered = TRUE]

\* one of the nested register attempts of registerFaceHash:
\* `await contract.register(...)` and `await tx.wait()`
SendRegister(w) ==
    /\ run[w].pc = "tx"
    /\ \/ \* rejected by the user, not encodable, or not sent
          /\ AttemptFailed(w)
          /\ UNCHANGED <<home, contractVars>>
       \/ /\ register(w, home[w].faceHash, "pk",
                      attemptIpfsHash(home[w].ipfsHash, run[w].attempt))
          /\ IF registrations[w].wallet # ZeroAddress
             THEN \* reverted
                  /\ AttemptFailed(w)
                  /\ UNCHANGED home
             ELSE AttemptConfirmed(w)
    /\ UNCHANGED <<fp, now, valVars, serverVars, utilVars>>

(***************************************************************************)
(* Registrations that do not come from this browser: other clients and     *)
(* direct calls of the contract.                                           *)
(***************************************************************************)
\* the wallet whose browser is observed
ThisWallet == "w1"

\* payloads pinned elsewhere: a face, and an embedding of another dimension
ElsewhereEmbeddings == {<<30, 40, 0, 0>>, <<30, 40>>}

\* register(faceHash, ipfsHash, publicKey) sent from elsewhere, by another
\* wallet or by this wallet on another device
RegisterElsewhere(sender) ==
    /\ \E embedding \in ElsewhereEmbeddings :
          register(sender, generateHash(embedding), "pk", Cid(embedding, 1))
    /\ UNCHANGED exceptContract

\* a client registers an embedding its extractor returned and it uploaded
RegisterUploaded(sender) ==
    /\ \E embedding \in Extracted :
          register(sender, generateHash(embedding), "pk", Cid(embedding, 1))
    /\ UNCHANGED exceptContract

(***************************************************************************)
(* Backend face verification (server.ts, handleFaceVerification).          *)
(***************************************************************************)
NoMatch == [address |-> "", similarity |-> ScoreZero]

NoResponse ==
    [status |-> 0, error |-> "", matchingAddress |-> "null",
     similarity |-> ScoreZero, isFaceRegistered |-> FALSE]

\* the catch block's response
ErrorResponse(message) ==
    [status |-> 500, error |-> message, matchingAddress |-> "null",
     similarity |-> ScoreZero, isFaceRegistered |-> FALSE]

ServerInit ==
    /\ sPc = "idle"
    /\ sEmbedding = <<>>
    /\ sFaces = <<>>
    /\ sNext = 1
    /\ sBestMatch = NoMatch
    /\ sCompared = {}
    /\ sResponse = NoResponse
    /\ sTotal = -1
    /\ sFailedAt = 0

\* embeddings processImage may extract from the posted image
ServerEmbeddings == {<<30, 40, 0, 0>>, <<0, 0, 30, 40>>, <<20, 20, 20, 20>>}

\* what getRegisteredFaces pushes for index i (the code counts from 0)
registeredFace(i) ==
    [address |-> getRegistration(registrants[i]).wallet,
     ipfsHash |-> getRegistration(registrants[i]).ipfsHash]

\* `catch (error) { ...; throw error; }` of getRegisteredFaces around the whole
\* loop, and the catch of handleFaceVerification that answers 500
RegistryReadFailed(i) ==
    /\ sFailedAt' = i
    /\ sResponse' = ErrorResponse("Failed to verify face")
    /\ sPc' = "done"
    /\ UNCHANGED <<sFaces, sTotal>>

\* the request arrives; the embedding is extracted and validated
ReceiveVerification ==
    /\ sPc = "idle"
    /\ \E embeddingData \in ServerEmbeddings :
          LET validationResult == validateEmbedding(embeddingData)
          IN  /\ sEmbedding' = embeddingData
              /\ IF ~validationResult.isValid
                 THEN /\ sResponse' = ErrorResponse(validationResult.message)
                      /\ sPc' = "done"
                 ELSE /\ sPc' = "validated"
                      /\ UNCHANGED sResponse
    /\ UNCHANGED <<sFaces, sNext, sBestMatch, sCompared, sTotal, sFailedAt, exceptServer>>

\* getRegisteredFaces, `await contract.totalRegistrants()`: the count is read
\* once, or the read throws
ReadTotalRegistrants ==
    /\ sPc = "validated"
    /\ \/ /\ sTotal' = totalRegistrants
          /\ sPc' = IF totalRegistrants = 0 THEN "comparing" ELSE "reading"
          /\ UNCHANGED <<sResponse, sFailedAt>>
       \/ /\ sResponse' = ErrorResponse("Failed to verify face")
          /\ sPc' = "done"
          /\ UNCHANGED <<sTotal, sFailedAt>>
    /\ UNCHANGED <<sEmbedding, sFaces, sNext, sBestMatch, sCompared, exceptServer>>

\* getRegisteredFaces, one iteration of `for (let i = 0; i < totalRegistrants;
\* i++)`: registrants(i) and getRegistration(address) are read and pushed, or
\* one of the reads throws
ReadRegistrant ==
    /\ sPc = "reading"
    /\ LET i == Len(sFaces) + 1
       IN  \/ /\ sFaces' = Append(sFaces, registeredFace(i))
              /\ sPc' = IF i = sTotal THEN "comparing" ELSE "reading"
              /\ UNCHANGED <<sResponse, sTotal, sFailedAt>>
           \/ RegistryReadFailed(i)
    /\ UNCHANGED <<sEmbedding, sNext, sBestMatch, sCompared, exceptServer>>

\* the match compared last replaces the best match
betterMatch_Latest(similarity, bestMatch) == TRUE

\* `if (similarity > bestMatch.similarity)`
betterMatch(similarity, bestMatch) == ScoreGT(similarity, bestMatch.similarity)

\* `await retrieveFromIPFS(face.ipfsHash)` with a gateway that accepts the
\* request and never answers: axios.get is called without a timeout, so the
\* await never settles and the handler stays here
RetrieveNeverSettles ==
    /\ sPc' = "fetching"
    /\ UNCHANGED <<sNext, sBestMatch, sCompared>>

\* one iteration of `for (const face of registeredFaces)`
CompareNextFace ==
    /\ sPc = "comparing"
    /\ sNext <= Len(sFaces)
    /\ LET face == sFaces[sNext]
           similarity == calculateCosineSimilarity(sEmbedding, face.ipfsHash.embedding)
       IN  \/ RetrieveNeverSettles
           \/ \* retrieveFromIPFS throws: caught, continue
              /\ sNext' = sNext + 1
              /\ UNCHANGED <<sPc, sBestMatch, sCompared>>
           \/ /\ face.ipfsHash # EmptyHash
              /\ sNext' = sNext + 1
              /\ UNCHANGED sPc
              /\ IF similarity = DimensionMismatch
                 THEN UNCHANGED <<sBestMatch, sCompared>>
                 ELSE /\ sCompared' = sCompared \cup
                           {[address |-> face.address, similarity |-> similarity]}
                      /\ IF betterMatch(similarity, sBestMatch)
                         THEN sBestMatch' = [address |-> face.address,
                                             similarity |-> similarity]
                         ELSE UNCHANGED sBestMatch
    /\ UNCHANGED <<sEmbedding, sFaces, sResponse, sTotal, sFailedAt, exceptServer>>

\* isFaceRegistered = bestMatch.similarity >= SIMILARITY_THRESHOLD, and the response
SendVerificationResponse ==
    /\ sPc = "comparing"
    /\ sNext > Len(sFaces)
    /\ LET isFaceRegistered ==
               ScoreGE(sBestMatch.similarity, Hundredths(SERVER_SIMILARITY_THRESHOLD))
       IN  sResponse' =
               [status |-> 200, error |-> "",
                matchingAddress |-> IF isFaceRegistered THEN sBestMatch.address ELSE "null",
                similarity |-> sBestMatch.similarity,
                isFaceRegistered |-> isFaceRegistered]
    /\ sPc' = "done"
    /\ UNCHANGED <<sEmbedding, sFaces, sNext, sBestMatch, sCompared, sTotal, sFailedAt,
                   exceptServer>>

(***************************************************************************)
(* calculateCosineSimilarity called on its own (ipfsUtils, server.ts and   *)
(* FaceApiService.compareFaceEmbeddings share one body).                   *)
(***************************************************************************)
NotCalled == [error |-> "not called"]

\* no call is made
SimIdle ==
    /\ simA = <<>>
    /\ simB = <<>>
    /\ simResult = NotCalled

\* arguments of dimension 2, 3 and 4, with negative entries and zero vectors
SimilarityInputs ==
    {<<30, 40>>, <<40, 30>>, <<-30, -40>>, <<-30, 40>>, <<0, 50>>, Zeros(2),
     <<0, 30, 40>>, <<20, 40, 40>>, <<-20, 40, 40>>, Zeros(3),
     <<30, 40, 0, 0>>, <<20, 20, 20, 20>>, <<20, 10, 40, 20>>, Zeros(4)}

SimInit ==
    /\ simA \in SimilarityInputs
    /\ simB \in SimilarityInputs
    /\ simResult = NotCalled

\* calculateCosineSimilarity(embedding1, embedding2): a score, or the throw
CallSimilarity ==
    /\ simResult = NotCalled
    /\ simResult' = calculateCosineSimilarity(simA, simB)
    /\ UNCHANGED <<simA, simB, fetchVars, ledgerVars, oracleVars, noteVars, exceptUtil>>

(***************************************************************************)
(* Fetching a payload from IPFS: retrieveFromIPFS (ipfsUtils, server.ts)   *)
(* and FaceApiService.fetchFromIPFS.                                       *)
(***************************************************************************)
IPFS_GATEWAYS ==
    <<"https://gateway.pinata.cloud/ipfs/", "https://ipfs.io/ipfs/",
      "https://cloudflare-ipfs.com/ipfs/", "https://dweb.link/ipfs/">>

\* the index of the gateway retrieveFromIPFS is written for
PinataGateway == CHOOSE g \in DOMAIN IPFS_GATEWAYS :
                     IPFS_GATEWAYS[g] = "https://gateway.pinata.cloud/ipfs/"

MsgRetrieveFailed == "Failed to retrieve from IPFS"

\* `ipfsHash.replace('ipfs://', '')`
cleanHash(ipfsHash) == [ipfsHash EXCEPT !.prefix = FALSE]

\* no fetch is made; every gateway answers
FetchIdle ==
    /\ gUp = [g \in DOMAIN IPFS_GATEWAYS |-> TRUE]
    /\ fFn = "none"
    /\ fHash = EmptyHash
    /\ fTried = <<>>
    /\ fResult = "pending"

\* every gateway answers or not, for the whole fetch
FetchInit ==
    /\ gUp \in [DOMAIN IPFS_GATEWAYS -> BOOLEAN]
    /\ fFn = "none"
    /\ fHash = EmptyHash
    /\ fTried = <<>>
    /\ fResult = "pending"

\* hashes as the registry stores them: with and without 'ipfs://'
FetchedHashes ==
    {Cid(<<30, 40, 0, 0>>, 1), formattedIpfsHash(Cid(<<30, 40, 0, 0>>, 1))}

\* retrieveFromIPFS(ipfsHash): one GET of the Pinata gateway; any error is
\* rethrown as 'Failed to retrieve from IPFS'
CallRetrieveFromIPFS ==
    /\ fFn = "none"
    /\ \E ipfsHash \in FetchedHashes :
          /\ fHash' = ipfsHash
          /\ fResult' = IF gUp[PinataGateway] /\ ~ipfsHash.prefix
                        THEN "payload" ELSE MsgRetrieveFailed
    /\ fFn' = "retrieveFromIPFS"
    /\ fTried' = <<PinataGateway>>
    /\ UNCHANGED <<gUp, simVars, ledgerVars, oracleVars, noteVars, exceptUtil>>

\* FaceApiService.fetchFromIPFS(ipfsHash) is entered
CallFetchFromIPFS ==
    /\ fFn = "none"
    /\ \E ipfsHash \in FetchedHashes : fHash' = ipfsHash
    /\ fFn' = "fetchFromIPFS"
    /\ UNCHANGED <<gUp, fTried, fResult, simVars, ledgerVars, oracleVars, noteVars, exceptUtil>>

\* one iteration of `for (const gateway of IPFS_GATEWAYS)`, or the return of
\* null after the last one
TryNextGateway ==
    /\ fFn = "fetchFromIPFS"
    /\ fResult = "pending"
    /\ IF Len(fTried) = Len(IPFS_GATEWAYS)
       THEN /\ fResult' = "null"
            /\ UNCHANGED fTried
       ELSE LET gateway == Len(fTried) + 1
            IN  /\ fTried' = Append(fTried, gateway)
                /\ fResult' = IF gUp[gateway] THEN "payload" ELSE "pending"
    /\ UNCHANGED <<gUp, fFn, fHash, simVars, ledgerVars, oracleVars, noteVars, exceptUtil>>

(***************************************************************************)
(* The comparison API as oracle: the loop body of checkFaceUniqueness that *)
(* calls FaceApiService.compareFaceWithIpfs, beside the local loop body.   *)
(***************************************************************************)
\* `const SIMILARITY_THRESHOLD = 0.60` of the hook that calls the API, in
\* hundredths
ORACLE_SIMILARITY_THRESHOLD == 60

\* a field the answer does not carry
Undefined == [undefined |-> TRUE]

NoAnswer == [success |-> FALSE, similarity |-> Undefined, isMatch |-> FALSE, error |-> ""]

\* what compareFaceWithIpfs may return: response.data of the API, or one of
\* its own error objects
OracleSimilarities ==
    {Undefined, ScoreZero, Fraction(2, 5), Fraction(3, 5), Fraction(13, 20),
     Fraction(7, 10), Fraction(3, 4), ScoreOne}

OracleErrors == {"", "IPFS access error", "Failed to compare faces"}

\* no entry has been compared
NoOutcome == [oracle |-> "none", local |-> "none"]

OracleIdle ==
    /\ oResult = NoAnswer
    /\ oOutcome = NoOutcome

OracleInit ==
    /\ oResult \in [success : BOOLEAN, similarity : OracleSimilarities,
                    isMatch : BOOLEAN, error : OracleErrors]
    /\ oOutcome = NoOutcome

\* `comparisonResult.similarity || 0`
similarityOrZero(similarity) ==
    IF similarity = Undefined THEN ScoreZero ELSE similarity

\* `error.includes('IPFS') || error.includes('gateway') || error.includes('403')`
isIpfsAccessError(error) == error = "IPFS access error"

\* the loop body after `await FaceApiService.compareFaceWithIpfs(...)`: the
\* entry is skipped on an IPFS access error, else `similarity >
\* SIMILARITY_THRESHOLD` decides
oracleEntryOutcome(comparisonResult) ==
    IF /\ ~comparisonResult.success
       /\ comparisonResult.error # ""
       /\ isIpfsAccessError(comparisonResult.error)
    THEN "skip"
    ELSE IF ScoreGT(similarityOrZero(comparisonResult.similarity),
                    Hundredths(ORACLE_SIMILARITY_THRESHOLD))
         THEN "duplicate"
         ELSE "continue"

\* the loop body of the local path for the same similarity value
localEntryOutcome(similarity) ==
    IF aboveThreshold(similarity) THEN "duplicate" ELSE "continue"

\* one entry is compared through the API, and the same value locally
CompareWithOracle ==
    /\ oOutcome = NoOutcome
    /\ oOutcome' =
           [oracle |-> oracleEntryOutcome(oResult),
            local |-> localEntryOutcome(similarityOrZero(oResult.similarity))]
    /\ UNCHANGED <<oResult, simVars, fetchVars, ledgerVars, noteVars, exceptUtil>>

(***************************************************************************)
(* Specifications.                                                         *)
(***************************************************************************)
InitValidate == ValInit /\ ContractInit /\ ServerInit /\ ClientInit /\ SimIdle /\ FetchIdle /\ OracleIdle /\ NotesInit

NextValidate ==
    \/ ReceiveEmbedding
    \/ RunValidateEmbedding
    \/ RunIsValidEmbedding

SpecValidate == InitValidate /\ [][NextValidate]_vars

InitContract == ValInit /\ ContractInit /\ ServerInit /\ ClientInit /\ SimIdle /\ FetchIdle /\ OracleIdle /\ NotesInit

NextContract == CallRegister

SpecContract == InitContract /\ [][NextContract]_vars

\* the ether of the contract: registrations, deposits and payment releases
InitPayment == ValInit /\ ContractInit /\ ServerInit /\ ClientInit /\ SimIdle /\ FetchIdle /\ OracleIdle /\ NotesInit

NextPayment ==
    \/ \E sender \in Callers : RegisterElsewhere(sender)
    \/ CallReleasePayment
    \/ CallDeposit

SpecPayment == InitPayment /\ [][NextPayment]_vars

\* the spend notes of registered wallets
InitNotes ==
    ValInit /\ ContractInit /\ ServerInit /\ ClientInit /\ SimIdle /\ FetchIdle /\ OracleIdle
        /\ NotesInit

NextNotes ==
    \/ \E w \in Wallets : RegisterElsewhere(w)
    \/ CallCreateSpendNote
    \/ CallSpendNote

SpecNotes == InitNotes /\ [][NextNotes]_vars

InitServer == ValInit /\ ContractInit /\ ServerInit /\ ClientInit /\ SimIdle /\ FetchIdle /\ OracleIdle /\ NotesInit

NextServer ==
    \/ CallRegister
    \/ ReceiveVerification
    \/ ReadTotalRegistrants
    \/ ReadRegistrant
    \/ CompareNextFace
    \/ SendVerificationResponse

SpecServer == InitServer /\ [][NextServer]_vars

\* one verification request against a registry that clients fill, with every
\* step of the handler taken whenever it can be: the event loop runs each
\* continuation as soon as its await settles
InitServerLive == ValInit /\ ContractInit /\ ServerInit /\ ClientInit /\ SimIdle /\ FetchIdle /\ OracleIdle /\ NotesInit

NextServerLive ==
    \/ \E w \in Wallets : RegisterUploaded(w)
    \/ ReceiveVerification
    \/ ReadTotalRegistrants
    \/ ReadRegistrant
    \/ CompareNextFace
    \/ SendVerificationResponse

SpecServerLive ==
    /\ InitServerLive
    /\ [][NextServerLive]_vars
    /\ WF_vars(ReadTotalRegistrants)
    /\ WF_vars(ReadRegistrant)
    /\ WF_vars(CompareNextFace)
    /\ WF_vars(SendVerificationResponse)

Init == ValInit /\ ContractInit /\ ServerInit /\ ClientInit /\ SimIdle /\ FetchIdle /\ OracleIdle /\ NotesInit

Next ==
    \/ \E w \in Wallets : NewSession(w)
    \/ \E w \in Wallets : Capture(w)
    \/ \E w \in Wallets : RegisterOnline(w)
    \/ \E w \in Wallets : HandleRegisterOnChain(w)
    \/ \E w \in Wallets : CheckRegistration(w)
    \/ \E w \in Wallets : RegisterFaceHash(w)
    \/ \E w \in Wallets : SendRegister(w)

Spec == Init /\ [][Next]_vars

InitCheck == ValInit /\ ContractInit /\ ServerInit /\ ClientInit /\ SimIdle /\ FetchIdle /\ OracleIdle /\ NotesInit

NextCheck ==
    \/ \E sender \in Callers : RegisterElsewhere(sender)
    \/ NewSession(ThisWallet)
    \/ Capture(ThisWallet)
    \/ RegisterOnline(ThisWallet)
    \/ HandleRegisterOnChain(ThisWallet)
    \/ CheckRegistration(ThisWallet)
    \/ RegisterFaceHash(ThisWallet)
    \/ SendRegister(ThisWallet)

SpecCheck == InitCheck /\ [][NextCheck]_vars

InitUpload == ValInit /\ ContractInit /\ ServerInit /\ ClientInit /\ SimIdle /\ FetchIdle /\ OracleIdle /\ NotesInit

NextUpload ==
    \/ NewSession(ThisWallet)
    \/ Capture(ThisWallet)
    \/ ResetCapture(ThisWallet)
    \/ RegisterOnline(ThisWallet)
    \/ HandleRegisterOnChain(ThisWallet)
    \/ CheckRegistration(ThisWallet)
    \/ RegisterFaceHash(ThisWallet)
    \/ SendRegister(ThisWallet)

SpecUpload == InitUpload /\ [][NextUpload]_vars

InitSimilarity ==
    ValInit /\ ContractInit /\ ServerInit /\ ClientInit /\ SimInit /\ FetchIdle /\ OracleIdle /\ NotesInit

NextSimilarity == CallSimilarity

SpecSimilarity == InitSimilarity /\ [][NextSimilarity]_vars

InitOracle ==
    ValInit /\ ContractInit /\ ServerInit /\ ClientInit /\ SimIdle /\ FetchIdle /\ OracleInit /\ NotesInit

NextOracle == CompareWithOracle

SpecOracle == InitOracle /\ [][NextOracle]_vars

InitFetch ==
    ValInit /\ ContractInit /\ ServerInit /\ ClientInit /\ SimIdle /\ FetchInit /\ OracleIdle /\ NotesInit

NextFetch ==
    \/ CallRetrieveFromIPFS
    \/ CallFetchFromIPFS
    \/ TryNextGateway

SpecFetch == InitFetch /\ [][NextFetch]_vars


(***************************************************************************)
(* Properties of the embedding validator.                                  *)
(***************************************************************************)
NonZeroIndices(e) == {i \in 1..Len(e) : e[i] # 0}

RECURSIVE SumOver(_, _)
SumOver(S, f) ==
    IF S = {} THEN 0
    ELSE LET x == CHOOSE y \in S : TRUE IN f[x] + SumOver(S \ {x}, f)

\* fewer than 5% of the D entries are non-zero
LowNonZeroRatio(e) == 20 * Cardinality(NonZeroIndices(e)) < Len(e)

\* the population standard deviation of the non-zero entries is at most 0.001:
\* the variance is the sum of the squared pairwise differences over 2 n^2
LowSpread(e) ==
    LET nz == NonZeroIndices(e)
        n  == Cardinality(nz)
        squaredDifference == [p \in nz \X nz |-> (e[p[1]] - e[p[2]]) * (e[p[1]] - e[p[2]])]
    IN  SumOver(nz \X nz, squaredDifference) <= 2 * n * n

\* no non-zero entry is larger than 0.01 in absolute value
LowMagnitude(e) == \A i \in NonZeroIndices(e) : Abs(e[i]) <= 10

\* C9: validate rejects an embedding whose non-zero count is below 5% of its
\* length, whose non-zero entries have a standard deviation of at most 0.001
\* or whose largest absolute value is at most 0.01, accepts only when all
\* three checks pass, and reports the first failing check.
C9_ValidatorChecks ==
    /\ vResult # NotRun =>
          vResult = IF LowNonZeroRatio(vInput)
                    THEN [isValid |-> FALSE, message |-> MsgTooManyZeros]
                    ELSE IF LowSpread(vInput) \/ LowMagnitude(vInput)
                         THEN [isValid |-> FALSE, message |-> MsgNotDistributed]
                         ELSE [isValid |-> TRUE, message |-> ""]
    /\ vAccepted # "not run" =>
          (vAccepted = "valid" <=>
              ~(LowNonZeroRatio(vInput) \/ LowSpread(vInput) \/ LowMagnitude(vInput)))

\* both validators have rejected an embedding that fails the magnitude check alone
C9_Witness ==
    /\ vResult # NotRun
    /\ vAccepted = "invalid"
    /\ ~LowNonZeroRatio(vInput)
    /\ ~LowSpread(vInput)
    /\ LowMagnitude(vInput)

(***************************************************************************)
(* Properties of the backend face verification.                            *)
(***************************************************************************)
ServerThreshold == Hundredths(SERVER_SIMILARITY_THRESHOLD)

ServerAnswered == sPc = "done" /\ sResponse.status = 200

\* C1: the verdict is duplicate exactly when some compared entry scores
\* strictly above the threshold; the reported score is the maximum over the
\* compared entries, and the reported identity owns that maximum.
C1_VerdictIffAboveThreshold ==
    ServerAnswered =>
        /\ sResponse.isFaceRegistered <=>
              \E c \in sCompared : ScoreGT(c.similarity, ServerThreshold)
        /\ sCompared # {} =>
              /\ \A c \in sCompared : ScoreGE(sResponse.similarity, c.similarity)
              /\ \E c \in sCompared : c.similarity = sResponse.similarity
        /\ sResponse.isFaceRegistered =>
              \E c \in sCompared : /\ c.address = sResponse.matchingAddress
                                   /\ c.similarity = sResponse.similarity

\* C2: a candidate whose best score equals the threshold exactly is not
\* reported as a registered face.
C2_ThresholdIsExclusive ==
    (ServerAnswered /\ sResponse.similarity = ServerThreshold)
        => ~sResponse.isFaceRegistered

(***************************************************************************)
(* Properties of the contract.                                             *)
(***************************************************************************)
Registered(a) == registrations[a].wallet # ZeroAddress

\* C5: the registry holds at most one entry per address, registrants.length is
\* the number of registered addresses, and a register call from a registered
\* address reverts with 'Already registered' and changes nothing.
C5_OnePerIdentity ==
    /\ [](/\ \A i, j \in 1..Len(registrants) :
                registrants[i] = registrants[j] => i = j
          /\ Len(registrants) = Cardinality({a \in Callers : Registered(a)}))
    /\ [][(/\ receipt' # receipt
           /\ receipt'.fn = "register"
           /\ Registered(receipt'.sender))
          => (/\ receipt'.status = "Already registered"
              /\ UNCHANGED <<registrations, registrants>>)]_vars

\* a second register call of a registered address has reverted
C5_Witness ==
    /\ receipt.status = "Already registered"
    /\ Len(registrants) = 2


(***************************************************************************)
(* Properties of the client flow.                                          *)
(***************************************************************************)
\* the embedding stored under the IPFS hash of the i-th registrant
Stored(i) == registrations[registrants[i]].ipfsHash.embedding

\* cosine similarity strictly above 0.7
ExceedsThreshold(e1, e2) ==
    /\ Len(e1) = Len(e2)
    /\ LET s == calculateCosineSimilarity(e1, e2)
       IN  10 * s.num > 7 * s.den

C4_RegisterOnlyAfterVerifiedCheck ==
    \A w \in Wallets :
        run[w].pc = "tx" =>
            /\ hook[w].uniquenessStatus = "unique"
            /\ run[w].count >= 0

\* C6: when the re-check of registerFaceHash finds the wallet registered, the
\* call ends with the error status 'already registered' and sends no
\* register transaction.
C6_RecheckBeforeCommit ==
    /\ [](\A w \in Wallets :
             hook[w].error = MsgAlreadyRegistered =>
                 /\ Registered(w)
                 /\ hook[w].registrationStatus = "error"
                 /\ run[w].pc # "tx")
    /\ [][\A w \in Wallets :
             (run[w].pc = "register" /\ Registered(w) /\ run'[w].pc # "register")
                 => /\ run'[w].pc = "idle"
                    /\ hook'[w].registrationStatus = "error"
                    /\ hook'[w].error \in {MsgAlreadyRegistered, MsgRegisterFailed}
                    /\ UNCHANGED contractVars]_vars

\* registerFaceHash has ended with 'already registered' for a registered wallet
C6_Witness ==
    \E w \in Wallets :
        /\ Registered(w)
        /\ run[w].pc = "idle"
        /\ hook[w].registrationStatus = "error"
        /\ hook[w].error = MsgAlreadyRegistered

\* C7: with a candidate that fails the validator, the check ends with an
\* error without reading the registry and without computing a similarity.
C7_InvalidCandidateFailsFast ==
    \A w \in Wallets :
        (/\ run[w].faceEmbedding # NoEmbedding
         /\ ~validateEmbedding(run[w].faceEmbedding).isValid)
            => /\ run[w].pc = "idle"
               /\ hook[w].uniquenessStatus = "error"
               /\ run[w].count = -1
               /\ run[w].scored = {}

\* C8: an embedding is uploaded, or compared with a stored embedding, only
\* after the validator has accepted it.
C8_ValidatedBeforeUploadOrCompare ==
    \A w \in Wallets :
        /\ fp[w].ipfsHash # EmptyHash => isValidEmbedding(fp[w].ipfsHash.embedding)
        /\ run[w].scored # {} => isValidEmbedding(run[w].faceEmbedding)

\* the check of w has ended after reading a registry of exactly one entry,
\* which belongs to another wallet and stores the candidate's embedding
CheckedAgainstEqualEntry(w) ==
    /\ run[w].faceEmbedding # NoEmbedding
    /\ run[w].pc # "loop"
    /\ run[w].count = 1
    /\ registrants[1] # w
    /\ Stored(1) = run[w].faceEmbedding

C11_EmptyRegistryIsUnique ==
    \A w \in Wallets :
        run[w].count = 0 =>
            /\ hook[w].uniquenessStatus = "unique"
            /\ run[w].pc # "loop"
            /\ run[w].i = 0
            /\ run[w].scored = {}
            /\ run[w].similarity = ScoreZero

\* a check has read the count 0 and answered unique
C11_Witness ==
    \E w \in Wallets :
        /\ run[w].count = 0
        /\ totalRegistrants = 0
        /\ hook[w].uniquenessStatus = "unique"

\* C12: the check never computes a similarity against an entry of the
\* caller's own wallet or against the entry whose IPFS hash is the one the
\* caller has just uploaded, so such entries cannot produce a match.
C12_OwnEntriesNeverScored ==
    \A w \in Wallets :
        \A i \in run[w].scored :
            /\ registrants[i] # w
            /\ registrations[registrants[i]].ipfsHash # run[w].currentIpfsHash

\* a check has passed over an entry of its own wallet and over an entry of
\* another wallet with the uploaded IPFS hash, which stores the candidate,
\* and has answered unique
C12_Witness ==
    \E w \in Wallets :
        /\ run[w].pc # "loop"
        /\ run[w].i = run[w].count
        /\ hook[w].uniquenessStatus = "unique"
        /\ \E j, k \in 1..run[w].count :
              /\ registrants[j] = w
              /\ registrants[k] # w
              /\ registrations[registrants[k]].ipfsHash = run[w].currentIpfsHash

\* C13: an entry whose payload cannot be fetched is skipped on its own: the
\* check goes on to the next entry, answers unique only after the last entry,
\* and answers duplicate as soon as an entry it does score is above the
\* threshold.
C13_FetchFailureSkipsOneEntry ==
    /\ [](\A w \in Wallets :
             (run[w].count > 0 /\ run[w].pc # "loop"
                 /\ hook[w].uniquenessStatus = "unique")
                 => run[w].i = run[w].count)
    /\ [][\A w \in Wallets :
             (run[w].pc = "loop" /\ run'[w] # run[w]) =>
                 IF run[w].i \in run'[w].scored
                 THEN ExceedsThreshold(Stored(run[w].i), run[w].faceEmbedding)
                          => /\ hook'[w].uniquenessStatus = "duplicate"
                             /\ run'[w].pc = "idle"
                 ELSE /\ run'[w].scored = run[w].scored
                      /\ IF run[w].i < run[w].count
                         THEN /\ run'[w].pc = "loop"
                              /\ run'[w].i = run[w].i + 1
                              /\ hook'[w] = hook[w]
                         ELSE hook'[w].uniquenessStatus = "unique"]_vars

\* a check has answered duplicate at a later entry after the fetch of an
\* earlier entry, which stores the candidate as well, had failed
C13_Witness ==
    \E w \in Wallets :
        /\ hook[w].uniquenessStatus = "duplicate"
        /\ run[w].i \in run[w].scored
        /\ \E j \in 1..(run[w].i - 1) :
              /\ j \notin run[w].scored
              /\ ~skipRegistration(w, registrants[j], registrations[registrants[j]].ipfsHash,
                                   run[w].currentIpfsHash)
              /\ ~registrations[registrants[j]].ipfsHash.prefix
              /\ Stored(j) = run[w].faceEmbedding

\* C14: a check that could not be carried out (the registry count was never
\* read) ends with an outcome other than the verdicts unique and duplicate.
C14_FailureIsNotAVerdict ==
    \A w \in Wallets :
        (/\ run[w].faceEmbedding # NoEmbedding
         /\ run[w].pc # "loop"
         /\ run[w].count = -1)
            => hook[w].uniquenessStatus \notin {"unique", "duplicate"}

\* C16: a check that met a stored embedding of another dimension than the
\* candidate ends with an error, never with the verdict unique or duplicate.
C16_MismatchIsSurfaced ==
    \A w \in Wallets :
        (run[w].mismatched # {} /\ run[w].pc # "loop")
            => hook[w].uniquenessStatus = "error"

\* what a successful upload has returned, and nothing else, is registered
OnlyUploadedHashes ==
    /\ (run[ThisWallet].pc \in {"loop", "register", "tx"}) =>
           (/\ run[ThisWallet].currentIpfsHash = home[ThisWallet].ipfsHash
            /\ home[ThisWallet].ipfsHash.timestamp \in 1..now
            /\ home[ThisWallet].ipfsHash.embedding = home[ThisWallet].faceEmbedding)
    /\ Registered(ThisWallet) =>
           (registrations[ThisWallet].ipfsHash.timestamp \in 1..now)
    /\ (fp[ThisWallet].toast = MsgUploadFailed) =>
           (fp[ThisWallet].ipfsHash = EmptyHash)

C15_UnequalLengthsThrow ==
    (simResult # NotCalled /\ Len(simA) # Len(simB))
        => simResult = DimensionMismatch

\* the call has thrown for a vector and the same vector padded with zeros
C15_Witness ==
    /\ simA = <<30, 40>>
    /\ simB = <<30, 40, 0, 0>>
    /\ simResult = DimensionMismatch

\* C17: with arguments of equal length of which one is the zero vector, the
\* call returns the score 0, which is above no threshold in (0,1).
C17_ZeroVectorScoresZero ==
    (/\ simResult # NotCalled
     /\ Len(simA) = Len(simB)
     /\ simA = Zeros(Len(simA)) \/ simB = Zeros(Len(simB)))
        => /\ simResult = ScoreZero
           /\ ~ScoreGT(simResult, Hundredths(SIMILARITY_THRESHOLD))
           /\ ~ScoreGE(simResult, Hundredths(SERVER_SIMILARITY_THRESHOLD))

\* the call has returned 0 for a zero vector against a face
C17_Witness ==
    /\ simA = Zeros(4)
    /\ simB = <<30, 40, 0, 0>>
    /\ simResult = ScoreZero

\* C18: with arguments of equal length the score lies in [0,1].
C18_ScoreInUnitInterval ==
    (simResult # NotCalled /\ Len(simA) = Len(simB))
        => /\ ScoreGE(simResult, ScoreZero)
           /\ ScoreGE(ScoreOne, simResult)

(***************************************************************************)
(* Properties of the store client.                                         *)
(***************************************************************************)
\* the gateways 1..n in their static order
FirstGateways(n) == [g \in 1..n |-> g]

\* C19: a finished fetch has contacted the gateways in their static order up
\* to the first one that answers and returned its payload, or has failed
\* after contacting every gateway without an answer.
C19_GatewaysTriedInOrder ==
    fResult # "pending" =>
        IF fResult = "payload"
        THEN /\ fTried = FirstGateways(Len(fTried))
             /\ gUp[Len(fTried)]
             /\ \A g \in 1..(Len(fTried) - 1) : ~gUp[g]
        ELSE /\ fTried = FirstGateways(Len(IPFS_GATEWAYS))
             /\ \A g \in DOMAIN IPFS_GATEWAYS : ~gUp[g]


(***************************************************************************)
(* Properties of the registry's history.                                   *)
(***************************************************************************)
\* one step keeps every stored registration and every held index
KeepsEveryEntry ==
    /\ \A a \in Callers :
           Registered(a) => registrations'[a] = registrations[a]
    /\ Len(registrants') >= Len(registrants)
    /\ \A i \in 1..Len(registrants) : registrants'[i] = registrants[i]

\* C21: the registry is append-only: once registrations[a].wallet is non-zero
\* the stored faceHash, ipfsHash, publicKey and timestamp of a never change and
\* are never cleared, and registrants only grows by appending, so an index that
\* held an address keeps holding it.
C21_AppendOnly == [][KeepsEveryEntry]_vars

\* every account is registered and one that registered before the last has
\* called register again
C21_Witness ==
    /\ Len(registrants) = Cardinality(Callers)
    /\ receipt.status = "Already registered"
    /\ registrations[receipt.sender].timestamp < Len(registrants)


\* a register transaction of an address without an entry is mined in this step
CommitOfNewIdentity ==
    /\ receipt' # receipt
    /\ receipt'.fn = "register"
    /\ ~Registered(receipt'.sender)

\* C22: no lock is held between the uniqueness check and the commit: the
\* registry rejects only a second commit of the same identity, so the commit of
\* an identity without an entry is accepted whatever faces were registered
\* since its check, and two clients with similar faces that both finish their
\* check before either commits are both registered.
C22_CommitIgnoresFaces ==
    [][CommitOfNewIdentity =>
          /\ receipt'.status = "confirmed"
          /\ registrants' = Append(registrants, receipt'.sender)
          /\ registrations'[receipt'.sender].wallet = receipt'.sender]_vars

\* both clients read an empty registry, both were told 'unique', and both are
\* registered with the same face
C22_Witness ==
    /\ \A w \in Wallets : /\ run[w].count = 0
                          /\ hook[w].uniquenessStatus = "unique"
                          /\ hook[w].registrationStatus = "success"
                          /\ Registered(w)
    /\ Len(registrants) = 2
    /\ Stored(1) = Stored(2)
    /\ ExceedsThreshold(Stored(1), Stored(2))


(***************************************************************************)
(* Properties of the contract's payments.                                  *)
(***************************************************************************)
\* the accounts that receive ether from the contract in this step
PaidInStep == {w \in Callers : received'[w] # received[w]}

\* a step pays only from a releasePayment of the owner, to registered accounts
\* not paid before, 0.01 ether each, out of a balance that covers it
PaysOnlyWhenAllowed ==
    PaidInStep # {} =>
        /\ receipt'.fn = "releasePayment"
        /\ receipt'.sender = owner
        /\ receipt'.status = "confirmed"
        /\ \A w \in PaidInStep : /\ Registered(w)
                                 /\ ~paymentSent[w]
                                 /\ paymentSent'[w]
                                 /\ received'[w] = received[w] + PAYMENT
        /\ balance >= PAYMENT * Cardinality(PaidInStep)
        /\ balance' = balance - PAYMENT * Cardinality(PaidInStep)

PaidAtMostOnce ==
    \A w \in Callers :
        /\ received[w] \in {0, PAYMENT}
        /\ paymentSent[w] <=> received[w] = PAYMENT
        /\ paymentSent[w] => Registered(w)

\* C23: releasePayment transfers 0.01 ether to a wallet only when the caller is
\* the owner, the wallet is registered, no payment was sent to it before and
\* the balance is at least 0.01 ether; after any sequence of calls, re-entrant
\* ones included, each wallet has been paid at most once and paymentSent[w] is
\* true only for registered wallets.
C23_PaidOnceWhenAllowed ==
    /\ []PaidAtMostOnce
    /\ [][PaysOnlyWhenAllowed]_vars

\* the owner, registered, was paid and has called releasePayment again from
\* its receive function, and another wallet has been paid as well
C23_Witness ==
    /\ receipt.fn = "releasePayment"
    /\ receipt.status = "confirmed"
    /\ receipt.nested >= 1
    /\ paymentSent[owner]
    /\ \E w \in Wallets : paymentSent[w]


(***************************************************************************)
(* Properties of the registry enumeration.                                 *)
(***************************************************************************)
\* C24: registry enumeration does not abort on one entry's read failure: when
\* the read of the entry at index i fails in getRegisteredFaces, the entry is
\* skipped, the entries after it are still enumerated and compared, and the
\* request is answered with a verdict.
C24_EnumerationContinues ==
    (sPc = "done" /\ sFailedAt > 0) =>
        /\ sResponse.status = 200
        /\ Len(sFaces) >= sTotal - 1
        /\ sNext > Len(sFaces)


\* C25: the check always terminates: every store fetch is bounded by a timeout,
\* so an entry whose gateway never answers is given up, the remaining entries
\* are processed, and a request that has been validated is eventually answered.
C25_CheckTerminates == (sPc = "validated") ~> (sPc = "done")


\* the similarities of the entries that were fetched and compared
ComparedScores == {c.similarity : c \in sCompared}

\* C26: the verdict does not depend on the order in which the entries are
\* processed: the reported score is the maximum over the set of compared
\* entries (and 0), and the face is reported as registered exactly when an entry
\* of that set reaches the threshold, whatever the position of the entries.
C26_VerdictIsOrderFree ==
    ServerAnswered =>
        /\ sResponse.similarity \in ComparedScores \cup {ScoreZero}
        /\ \A score \in ComparedScores \cup {ScoreZero} :
               ScoreGE(sResponse.similarity, score)
        /\ sResponse.isFaceRegistered <=>
               \E score \in ComparedScores : ScoreGE(score, ServerThreshold)
        /\ \A c \in sCompared : \E k \in 1..Len(sFaces) :
               /\ sFaces[k].address = c.address
               /\ c.similarity =
                      calculateCosineSimilarity(sEmbedding, sFaces[k].ipfsHash.embedding)

\* a request was answered after the best entry was compared first and an
\* entry with a lower score after it
C26_Witness ==
    /\ ServerAnswered
    /\ Len(sFaces) = 2
    /\ \E first, second \in sCompared :
          /\ first.address = sFaces[1].address
          /\ second.address = sFaces[2].address
          /\ ScoreGT(first.similarity, second.similarity)
          /\ sResponse.similarity = first.similarity


(***************************************************************************)
(* Properties of the oracle path.                                          *)
(***************************************************************************)
\* C27: with the comparison API the duplicate decision is computed locally
\* from the similarity it returns, with the threshold and the strict
\* comparison of the local path; the isMatch field decides nothing, and for
\* the same similarity value the oracle path and the local path agree.
C27_OracleDecidesLikeLocal ==
    (oOutcome.oracle \in {"duplicate", "continue"}) =>
        /\ oOutcome.oracle = "duplicate" <=>
               LET similarity == similarityOrZero(oResult.similarity)
               IN  10 * similarity.num > 7 * similarity.den
        /\ oOutcome.oracle = oOutcome.local


(***************************************************************************)
(* Properties of registerFaceHash.                                         *)
(***************************************************************************)
\* a register transaction of the call of wallet w is confirmed in this step
ConfirmedInCall(w) ==
    /\ run[w].pc = "tx"
    /\ ~Registered(w)
    /\ registrations'[w].wallet = w

RegisterCallStep(w) ==
    /\ (hook'[w].registrationStatus = "success"
            /\ hook[w].registrationStatus # "success")
           => /\ ConfirmedInCall(w)
              /\ receipt' = [fn |-> "register", sender |-> w, status |-> "confirmed"]
    /\ ConfirmedInCall(w)
           => /\ run'[w].pc = "idle"
              /\ hook'[w].registrationStatus = "success"
    /\ (run[w].pc = "tx" /\ run'[w].pc = "idle" /\ ~ConfirmedInCall(w))
           => /\ run[w].attempt = REGISTER_ATTEMPTS
              /\ hook'[w].registrationStatus = "error"

RegisterCallState(w) ==
    /\ hook[w].isRegistering <=> run[w].pc = "tx"
    /\ run[w].pc = "tx" <=> run[w].attempt \in 1..REGISTER_ATTEMPTS
    /\ hook[w].registrationStatus = "success" => Registered(w)

Visited(w) == run[w].scored \cup run[w].mismatched

EnumerationState(w) ==
    run[w].count > 0 =>
        /\ run[w].count <= Len(registrants)
        /\ run[w].i \in 1..run[w].count
        /\ Visited(w) \subseteq 1..run[w].count
        /\ Registered(registrants[run[w].i])

EnumerationStep(w) ==
    (run[w].pc = "loop" /\ run'[w] # run[w]) =>
        /\ run'[w].count = run[w].count
        /\ run'[w].i \in {run[w].i, run[w].i + 1}
        /\ Visited(w)' \subseteq Visited(w) \cup {run[w].i}

\* C29: the enumeration reads the count N once and then the indices 0..N-1:
\* as the registry only appends, every index it reads holds an entry even when
\* others register meanwhile, and an entry appended after N was read is not
\* seen by that enumeration.
C29_CountReadOnce ==
    /\ [](\A w \in Wallets : EnumerationState(w))
    /\ [][\A w \in Wallets : EnumerationStep(w)]_vars

\* a check has answered unique after its last index while the registry had
\* grown beyond the count it read, by an entry that stores the candidate
C29_Witness ==
    \E w \in Wallets :
        /\ run[w].pc = "register"
        /\ run[w].count > 0
        /\ run[w].i = run[w].count
        /\ Len(registrants) > run[w].count
        /\ Stored(Len(registrants)) = run[w].faceEmbedding
        /\ registrants[Len(registrants)] # w


(***************************************************************************)
(* Properties of the spend notes.                                          *)
(***************************************************************************)
RECURSIVE SumAmounts(_)
SumAmounts(hashes) ==
    IF hashes = {} THEN 0
    ELSE LET h == CHOOSE x \in hashes : TRUE
         IN  spendNotes[h].amount + SumAmounts(hashes \ {h})

\* the notes that were created and not spent
UnspentNotes ==
    {h \in NoteHashes : /\ \E k \in 1..Len(spendNoteHashes) : spendNoteHashes[k] = h
                        /\ ~spendNotes[h].spent}

NotesAreSound ==
    /\ \A h \in NoteHashes : notePaid[h] <= 1
    /\ \A n \in Nullifiers : nullifierUsed[n] <= 1
    /\ \A i, j \in 1..Len(spendNoteHashes) :
           spendNoteHashes[i] = spendNoteHashes[j] => i = j
    /\ noteBalance >= SumAmounts(UnspentNotes)

NoteCreatedAsRequired ==
    (Len(spendNoteHashes') > Len(spendNoteHashes)) =>
        /\ receipt'.fn = "createSpendNote"
        /\ Registered(receipt'.sender)
        /\ noteBalance' = noteBalance + NOTE_AMOUNT
        /\ \A k \in 1..Len(spendNoteHashes) :
               spendNoteHashes[k] # spendNoteHashes'[Len(spendNoteHashes')]

\* C30: the funds of a note leave the contract at most once and a nullifier is
\* accepted at most once, re-entrant spendNote calls included; a note is
\* created only by a registered caller sending exactly 0.1 ether under a note
\* hash not used before; so the balance covers the amounts of all unspent
\* notes.
C30_NotesSpentOnce ==
    /\ []NotesAreSound
    /\ [][NoteCreatedAsRequired]_vars

====
